---- MODULE Spec2Model ----
(***************************************************************************)
(* Model of src/exercises/algorithm/algorithm10.rs: the Graph trait with   *)
(* its default methods and the UndirectedGraph implementation backed by    *)
(* an adjacency table HashMap<String, Vec<(String, i32)>>.                 *)
(*                                                                         *)
(* A HashMap is modelled as a function whose DOMAIN is its key set, a Vec  *)
(* as a sequence, a (String, i32) pair as a 2-tuple.                       *)
(***************************************************************************)
EXTENDS Integers, Sequences, FiniteSets, TLC

\* Node labels used as call arguments (the labels of test_add_edge).
Labels == {"a", "b", "c"}

\* Edge weights range over 0..MaxWeight.
MaxWeight == 1

\* At most MaxEdges add_edge calls are made on one graph.
MaxEdges == 3

Weights == 0..MaxWeight

VARIABLES
    adjacency_table,  \* UndirectedGraph.adjacency_table
    op,               \* the method called last ("new" after construction)
    args,             \* its arguments, as a tuple
    ret,              \* its return value ("unit" for methods returning ())
    created,          \* history: the keys the last call added to the table
    added,            \* history: labels passed to add_node or as an endpoint
    edgeArgs,         \* history: labels passed as an add_edge endpoint
    nEdges            \* history: number of add_edge calls so far

vars == <<adjacency_table, op, args, ret, created, added, edgeArgs, nEdges>>

----------------------------------------------------------------------------
(* HashMap and Vec primitives used by the code *)

\* HashMap::new()
EmptyTable == [k \in {} |-> <<>>]

\* HashMap::insert(k, v): sets the value of k, overwriting an existing one.
insert(t, k, v) == [x \in (DOMAIN t) \cup {k} |-> IF x = k THEN v ELSE t[x]]

\* t.entry(k).or_insert_with(Vec::new).push(v)
entry_push(t, k, v) ==
    IF k \in DOMAIN t
    THEN [t EXCEPT ![k] = Append(@, v)]
    ELSE insert(t, k, <<v>>)

----------------------------------------------------------------------------
(* Graph trait: default methods *)

\* Graph::contains
contains(t, node) == node \in DOMAIN t

\* A plausible slip: insert without the early return, resetting the list.
add_node_reset(t, node) ==
    [table |-> insert(t, node, <<>>), ret |-> ~contains(t, node)]

\* A plausible slip: report the insertion without performing it.
add_node_noinsert(t, node) ==
    [table |-> t, ret |-> ~contains(t, node)]

\* Graph::add_node: the table after the call and the returned bool.
add_node(t, node) ==
    IF contains(t, node)
    THEN [table |-> t, ret |-> FALSE]
    ELSE [table |-> insert(t, node, <<>>), ret |-> TRUE]

\* The two guarded add_node calls that open both add_edge bodies.
ensure_endpoints(t, from_node, to_node) ==
    LET t1 == IF ~contains(t, from_node) THEN add_node(t, from_node).table ELSE t
    IN  IF ~contains(t1, to_node) THEN add_node(t1, to_node).table ELSE t1

\* Graph::add_edge, the trait's default: forward entry only.
Graph_add_edge(t, from_node, to_node, weight) ==
    entry_push(ensure_endpoints(t, from_node, to_node),
               from_node, <<to_node, weight>>)

\* Graph::nodes
nodes(t) == DOMAIN t

\* The iteration orders a HashMap may present its keys in: unspecified, so
\* every permutation of the key set.
KeyOrders(t) ==
    LET n == Cardinality(DOMAIN t)
    IN  {s \in [1..n -> DOMAIN t] : \A i, j \in 1..n : s[i] = s[j] => i = j}

\* Inner loop of Graph::edges: one tuple per neighbour entry, in list order.
edges_of(t, from_node) ==
    [i \in 1..Len(t[from_node]) |->
        <<from_node, t[from_node][i][1], t[from_node][i][2]>>]

RECURSIVE edges_first_only(_, _)
\* A plausible slip: only the first neighbour entry of each node is emitted.
edges_first_only(t, order) ==
    IF order = <<>> THEN <<>>
    ELSE LET row == edges_of(t, Head(order))
         IN  (IF row = <<>> THEN <<>> ELSE <<row[1]>>)
                 \o edges_first_only(t, Tail(order))

RECURSIVE edges(_, _)
\* Graph::edges, iterating the keys in the given order.
edges(t, order) ==
    IF order = <<>> THEN <<>>
    ELSE edges_of(t, Head(order)) \o edges(t, Tail(order))

----------------------------------------------------------------------------
(* UndirectedGraph *)

\* A plausible slip: inheriting the default unchanged (no reverse entry).
add_edge_forward_only(t, from_node, to_node, weight) ==
    Graph_add_edge(t, from_node, to_node, weight)

\* A plausible slip: a self-loop stored once instead of twice.
add_edge_single_loop(t, from_node, to_node, weight) ==
    LET t1 == Graph_add_edge(t, from_node, to_node, weight)
    IN  IF from_node = to_node THEN t1
        ELSE entry_push(t1, to_node, <<from_node, weight>>)

\* A plausible slip: the forward entry pushed without creating the endpoints.
add_edge_no_create(t, from_node, to_node, weight) ==
    entry_push(t, from_node, <<to_node, weight>>)

\* A plausible slip: an existing identical entry is not pushed again.
add_edge_dedup(t, from_node, to_node, weight) ==
    LET t2 == ensure_endpoints(t, from_node, to_node)
        put(u, k, v) == IF \E i \in 1..Len(u[k]) : u[k][i] = v
                        THEN u ELSE entry_push(u, k, v)
    IN  put(put(t2, from_node, <<to_node, weight>>),
            to_node, <<from_node, weight>>)

\* A plausible slip: a strict variant that looks the endpoints up instead of
\* creating them, and skips the ones that are missing.
add_edge_strict(t, from_node, to_node, weight) ==
    LET push(u, k, v) == IF k \in DOMAIN u THEN entry_push(u, k, v) ELSE u
    IN  push(push(t, from_node, <<to_node, weight>>),
             to_node, <<from_node, weight>>)

\* A plausible slip: the reverse entry placed at the front of the list.
add_edge_prepend(t, from_node, to_node, weight) ==
    LET t3 == entry_push(ensure_endpoints(t, from_node, to_node),
                         from_node, <<to_node, weight>>)
    IN  [t3 EXCEPT ![to_node] = <<<<from_node, weight>>>> \o @]

\* A plausible slip: the reverse entry names the destination, not the source.
add_edge_wrong_reverse(t, from_node, to_node, weight) ==
    LET t3 == entry_push(ensure_endpoints(t, from_node, to_node),
                         from_node, <<to_node, weight>>)
    IN  entry_push(t3, to_node, <<to_node, weight>>)

\* UndirectedGraph::add_edge: forward and reverse entry.
UndirectedGraph_add_edge(t, from_node, to_node, weight) ==
    LET t2 == ensure_endpoints(t, from_node, to_node)
        t3 == entry_push(t2, from_node, <<to_node, weight>>)
    IN  entry_push(t3, to_node, <<from_node, weight>>)

----------------------------------------------------------------------------
(* The state machine: one action per public method call *)

\* UndirectedGraph::new()
Init ==
    /\ adjacency_table = EmptyTable
    /\ op = "new"
    /\ args = <<>>
    /\ ret = "unit"
    /\ created = {}
    /\ added = {}
    /\ edgeArgs = {}
    /\ nEdges = 0

CallAddNode(node) ==
    LET r == add_node(adjacency_table, node)
    IN  /\ adjacency_table' = r.table
        /\ op' = "add_node"
        /\ args' = <<node>>
        /\ ret' = r.ret
        /\ created' = (DOMAIN r.table) \ (DOMAIN adjacency_table)
        /\ added' = added \cup {node}
        /\ UNCHANGED <<edgeArgs, nEdges>>

CallAddEdge(from_node, to_node, weight) ==
    /\ nEdges < MaxEdges
    /\ adjacency_table' =
           UndirectedGraph_add_edge(adjacency_table, from_node, to_node, weight)
    /\ op' = "add_edge"
    /\ args' = <<from_node, to_node, weight>>
    /\ ret' = "unit"
    /\ created' = (DOMAIN adjacency_table') \ (DOMAIN adjacency_table)
    /\ added' = added \cup {from_node, to_node}
    /\ edgeArgs' = edgeArgs \cup {from_node, to_node}
    /\ nEdges' = nEdges + 1

CallContains(node) ==
    /\ op' = "contains"
    /\ args' = <<node>>
    /\ ret' = contains(adjacency_table, node)
    /\ created' = {}
    /\ UNCHANGED <<adjacency_table, added, edgeArgs, nEdges>>

CallNodes ==
    /\ op' = "nodes"
    /\ args' = <<>>
    /\ ret' = nodes(adjacency_table)
    /\ created' = {}
    /\ UNCHANGED <<adjacency_table, added, edgeArgs, nEdges>>

CallEdges ==
    \E order \in KeyOrders(adjacency_table) :
        /\ op' = "edges"
        /\ args' = <<>>
        /\ ret' = edges(adjacency_table, order)
        /\ created' = {}
        /\ UNCHANGED <<adjacency_table, added, edgeArgs, nEdges>>

Next ==
    \/ \E node \in Labels : CallAddNode(node)
    \/ \E from_node, to_node \in Labels : \E weight \in Weights :
           CallAddEdge(from_node, to_node, weight)
    \/ \E node \in Labels : CallContains(node)
    \/ CallNodes
    \/ CallEdges

Spec == Init /\ [][Next]_vars

----------------------------------------------------------------------------
(* Vocabulary of the properties *)

\* The neighbour list of a label, empty when the label is not a key.
ListOf(t, n) == IF n \in DOMAIN t THEN t[n] ELSE <<>>

\* Number of positions of sequence s holding the value v.
Count(s, v) == Cardinality({i \in 1..Len(s) : s[i] = v})

\* s is an initial segment of u.
IsPrefix(s, u) == Len(s) <= Len(u) /\ \A i \in 1..Len(s) : s[i] = u[i]

AllTriples == Labels \X Labels \X Weights

----------------------------------------------------------------------------
(* Properties *)

\* C1 (symmetry): for every node a and every entry (b, w) of a's neighbour
\* list, b's neighbour list has an entry (a, w); every result of edges()
\* contains (b, a, w) whenever it contains (a, b, w); and right after
\* add_edge((a, b, w)), edges() contains both (a, b, w) and (b, a, w)
\* whatever order the table is iterated in.
C1_Symmetry ==
    /\ \A a \in DOMAIN adjacency_table :
         \A i \in 1..Len(adjacency_table[a]) :
           LET b == adjacency_table[a][i][1]
               w == adjacency_table[a][i][2]
           IN  /\ b \in DOMAIN adjacency_table
               /\ \E j \in 1..Len(adjacency_table[b]) :
                      adjacency_table[b][j] = <<a, w>>
    /\ op = "edges" =>
         \A i \in 1..Len(ret) :
           \E j \in 1..Len(ret) : ret[j] = <<ret[i][2], ret[i][1], ret[i][3]>>
    /\ op = "add_edge" =>
         \A o \in KeyOrders(adjacency_table) :
           LET E == edges(adjacency_table, o)
           IN  /\ Count(E, <<args[1], args[2], args[3]>>) >= 1
               /\ Count(E, <<args[2], args[1], args[3]>>) >= 1

\* C1 witness: the triangle of test_add_edge has just been completed.
C1_Witness ==
    /\ op = "add_edge"
    /\ nEdges = 3
    /\ DOMAIN adjacency_table = Labels
    /\ \A n \in Labels :
         /\ Len(adjacency_table[n]) = 2
         /\ {adjacency_table[n][1][1], adjacency_table[n][2][1]} = Labels \ {n}

\* C2 (node set completeness): nodes() is exactly the set of labels passed
\* to add_node or as an endpoint to add_edge.
C2_NodeSetComplete == nodes(adjacency_table) = added

\* C2 witness: all labels are present, some through add_node only and some
\* through an edge.
C2_Witness ==
    /\ added = Labels
    /\ edgeArgs # {}
    /\ edgeArgs # Labels
    /\ nodes(adjacency_table) = Labels

\* C3 (add_node): the call returns true iff the label was not a key before
\* it; then the label is inserted with an empty list and nothing else
\* changes; when it returns false the whole table is unchanged.
C3_AddNode ==
    [][op' = "add_node" =>
        LET l == args'[1]
        IN  /\ ret' = (l \notin DOMAIN adjacency_table)
            /\ ret' =>
                 /\ DOMAIN adjacency_table' = DOMAIN adjacency_table \cup {l}
                 /\ adjacency_table'[l] = <<>>
                 /\ \A n \in DOMAIN adjacency_table :
                        adjacency_table'[n] = adjacency_table[n]
            /\ ~ret' =>
                 /\ adjacency_table' = adjacency_table
                 /\ nodes(adjacency_table') = nodes(adjacency_table)
    ]_vars

\* C3 witness: add_node returned false for a node that has neighbours.
C3_Witness ==
    /\ op = "add_node"
    /\ ret = FALSE
    /\ adjacency_table[args[1]] # <<>>

\* C4 (edge multiplicity): after n add_edge calls edges() has exactly 2n
\* tuples; every add_edge((a, b, w)) adds one more (b, w) entry to a's list
\* and one more (a, w) entry to b's (two more (a, w) when a = b), whether or
\* not such entries were already there; and edges() then holds (a, b, w) and
\* (b, a, w) as many times as the lists hold these entries.
C4_EdgeMultiplicity ==
    /\ [](\A o \in KeyOrders(adjacency_table) :
            LET E == edges(adjacency_table, o)
            IN  /\ Len(E) = 2 * nEdges
                /\ op = "add_edge" =>
                     /\ Count(E, <<args[1], args[2], args[3]>>)
                          = Count(ListOf(adjacency_table, args[1]),
                                  <<args[2], args[3]>>)
                     /\ Count(E, <<args[2], args[1], args[3]>>)
                          = Count(ListOf(adjacency_table, args[2]),
                                  <<args[1], args[3]>>))
    /\ [][op' = "add_edge" =>
           LET a == args'[1]
               b == args'[2]
               w == args'[3]
               k == IF a = b THEN 2 ELSE 1
           IN  /\ Count(ListOf(adjacency_table', a), <<b, w>>)
                     = Count(ListOf(adjacency_table, a), <<b, w>>) + k
               /\ Count(ListOf(adjacency_table', b), <<a, w>>)
                     = Count(ListOf(adjacency_table, b), <<a, w>>) + k
      ]_vars

\* C4 witness: the same edge between two distinct nodes was added twice.
C4_Witness ==
    /\ nEdges = 2
    /\ op = "add_edge"
    /\ args[1] # args[2]
    /\ adjacency_table[args[1]] = <<<<args[2], args[3]>>, <<args[2], args[3]>>>>
    /\ adjacency_table[args[2]] = <<<<args[1], args[3]>>, <<args[1], args[3]>>>>

\* C5 (auto-creation): right after add_edge((a, b, w)), contains(a) and
\* contains(b) are both true.
C5_AutoCreation ==
    op = "add_edge" =>
        /\ contains(adjacency_table, args[1])
        /\ contains(adjacency_table, args[2])

\* C5 witness: add_edge was called with two distinct endpoints that were
\* both absent before the call.
C5_Witness ==
    /\ op = "add_edge"
    /\ args[1] # args[2]
    /\ created = {args[1], args[2]}

\* C6 (monotonic growth): no step removes a key, and every neighbour list
\* before the step is a prefix of the same node's list after it.
C6_Monotonic ==
    [][/\ DOMAIN adjacency_table \subseteq DOMAIN adjacency_table'
       /\ \A n \in DOMAIN adjacency_table :
            n \in DOMAIN adjacency_table' =>
                IsPrefix(adjacency_table[n], adjacency_table'[n])
    ]_vars

\* C6 witness: a list holding two different entries has just been extended.
C6_Witness ==
    /\ op = "add_edge"
    /\ Len(adjacency_table[args[2]]) >= 2
    /\ adjacency_table[args[2]][1] # adjacency_table[args[2]][2]

\* C7 (pure queries): contains, nodes and edges leave the table unchanged;
\* contains(label) is true exactly when label is a key; edges() returns one
\* tuple (src, dst, w) per neighbour entry (dst, w) of src, as a multiset.
C7_PureQueries ==
    /\ [][op' \in {"contains", "nodes", "edges"} =>
              adjacency_table' = adjacency_table]_vars
    /\ [](op = "contains" => ret = (args[1] \in DOMAIN adjacency_table))
    /\ [](op = "edges" =>
            /\ \A i \in 1..Len(ret) : ret[i] \in AllTriples
            /\ \A e \in AllTriples :
                 Count(ret, e) = Count(ListOf(adjacency_table, e[1]),
                                       <<e[2], e[3]>>))

\* C7 witness: edges() was called on a graph holding a repeated entry.
C7_Witness ==
    /\ op = "edges"
    /\ Len(ret) >= 4
    /\ \E i, j \in 1..Len(ret) : i # j /\ ret[i] = ret[j]

\* C8 (override equivalence): in every state and for every (a, b, w) the
\* override yields the table of default add_edge((a, b, w)) followed by
\* default add_edge((b, a, w)), every add_edge step does so, and the default
\* alone creates the endpoints and appends only (b, w) to a's list.
C8_OverrideEquivalence ==
    /\ [](\A a, b \in Labels : \A w \in Weights :
            /\ UndirectedGraph_add_edge(adjacency_table, a, b, w)
                 = Graph_add_edge(Graph_add_edge(adjacency_table, a, b, w),
                                  b, a, w)
            /\ LET d == Graph_add_edge(adjacency_table, a, b, w)
               IN  /\ DOMAIN d = DOMAIN adjacency_table \cup {a, b}
                   /\ d[a] = Append(ListOf(adjacency_table, a), <<b, w>>)
                   /\ \A n \in DOMAIN d \ {a} :
                          d[n] = ListOf(adjacency_table, n))
    /\ [][op' = "add_edge" =>
            adjacency_table' =
                Graph_add_edge(
                    Graph_add_edge(adjacency_table, args'[1], args'[2], args'[3]),
                    args'[2], args'[1], args'[3])
      ]_vars

\* C8 witness: a self-loop was added on a node that was absent before.
C8_Witness ==
    /\ op = "add_edge"
    /\ args[1] = args[2]
    /\ created = {args[1]}
    /\ Len(adjacency_table[args[1]]) = 2

\* C9 (frame of add_edge): add_edge((a, b, w)) adds no key other than a and
\* b and changes no other node's list; when a # b, (b, w) is appended to a's
\* list and (a, w) to b's; when a = b, a's list grows by two (a, w) entries.
C9_AddEdgeFrame ==
    [][op' = "add_edge" =>
        LET a == args'[1]
            b == args'[2]
            w == args'[3]
        IN  /\ DOMAIN adjacency_table' = DOMAIN adjacency_table \cup {a, b}
            /\ \A n \in DOMAIN adjacency_table \ {a, b} :
                   adjacency_table'[n] = adjacency_table[n]
            /\ a # b =>
                 /\ adjacency_table'[a]
                      = Append(ListOf(adjacency_table, a), <<b, w>>)
                 /\ adjacency_table'[b]
                      = Append(ListOf(adjacency_table, b), <<a, w>>)
            /\ a = b =>
                 adjacency_table'[a]
                   = ListOf(adjacency_table, a) \o <<<<a, w>>, <<a, w>>>>
    ]_vars

\* C9 witness: an edge between two distinct nodes was added while a third
\* node holds neighbours of its own.
C9_Witness ==
    /\ op = "add_edge"
    /\ args[1] # args[2]
    /\ \E n \in DOMAIN adjacency_table \ {args[1], args[2]} :
           adjacency_table[n] # <<>>

\* C10 (no dangling neighbours): every label in a neighbour list is a key,
\* every src and dst returned by edges() is in nodes(), and a node that no
\* add_edge call has named has an empty neighbour list.
C10_NoDangling ==
    /\ \A n \in DOMAIN adjacency_table :
         \A i \in 1..Len(adjacency_table[n]) :
             adjacency_table[n][i][1] \in DOMAIN adjacency_table
    /\ op = "edges" =>
         \A i \in 1..Len(ret) :
             {ret[i][1], ret[i][2]} \subseteq nodes(adjacency_table)
    /\ \A n \in DOMAIN adjacency_table :
         n \notin edgeArgs => adjacency_table[n] = <<>>

\* C10 witness: a node added by add_node alone sits next to an edge.
C10_Witness ==
    /\ nEdges >= 1
    /\ \E n \in DOMAIN adjacency_table :
         n \notin edgeArgs /\ adjacency_table[n] = <<>>

====
